---- MODULE Spec2Model ----
(***************************************************************************)
(* Kamailio-Config-Formatter: the line-by-line formatting pass             *)
(* (formatKamailioConfig) and the structural validator                     *)
(* (validateKamailioConfig) of src/extension.ts.                           *)
(*                                                                         *)
(* A JavaScript string is a sequence of one-character strings, so that     *)
(* trim, split, join, startsWith, includes, endsWith and repeat are        *)
(* computed on characters and not assumed.                                 *)
(***************************************************************************)
EXTENDS Integers, Sequences, FiniteSets, TLC

VARIABLES
    configContent,          \* the argument of the call (validate: `content`)
    pc,                     \* position of the running call
    lines,                  \* const lines
    i,                      \* number of lines consumed (validate: loop index i)
    indentLevel,            \* let indentLevel
    inPreprocessorBlock,    \* let inPreprocessorBlock
    formattedLines,         \* let formattedLines
    result,                 \* the KamailioConfig returned by formatKamailioConfig
    blockCount,             \* let blockCount
    preprocessorBlockCount, \* let preprocessorBlockCount
    error,                  \* kind of the Error thrown, "none" before
    errLine                 \* the line number in the Error's message, 0 if none

vars == <<configContent, pc, lines, i, indentLevel, inPreprocessorBlock,
          formattedLines, result, blockCount, preprocessorBlockCount,
          error, errLine>>

fmtVars == <<indentLevel, inPreprocessorBlock, formattedLines, result>>
valVars == <<blockCount, preprocessorBlockCount, error, errLine>>

----------------------------------------------------------------------------
(* Bounds of the model. *)

\* Longest document, in lines, handed to formatKamailioConfig.
MaxLines == 3

\* Longest document, in lines, handed to validateKamailioConfig alone.
MaxVLines == 5

\* Longest document, in lines, of the documents of blocks.
MaxBlockLines == 4

----------------------------------------------------------------------------
(* JavaScript string operations. *)

EmptyStr == <<>>

\* WhiteSpace and LineTerminator characters, as String.prototype.trim sees them.
WhiteSpace == {" ", "\t", "\n", "\r"}

MinOf(S) == CHOOSE x \in S : \A y \in S : x <= y
MaxOf(S) == CHOOSE x \in S : \A y \in S : x >= y

\* Index of the first character of s at or after k that is no white space.
RECURSIVE FirstKept(_, _)
FirstKept(s, k) ==
    IF k > Len(s) \/ s[k] \notin WhiteSpace THEN k ELSE FirstKept(s, k + 1)

\* Index of the last character of s at or before k that is no white space.
RECURSIVE LastKept(_, _)
LastKept(s, k) ==
    IF k < 1 \/ s[k] \notin WhiteSpace THEN k ELSE LastKept(s, k - 1)

\* s.trim()
Trim(s) == SubSeq(s, FirstKept(s, 1), LastKept(s, Len(s)))

\* s.startsWith(p)
StartsWith(s, p) == Len(s) >= Len(p) /\ SubSeq(s, 1, Len(p)) = p

\* s.endsWith(p)
EndsWith(s, p) == Len(s) >= Len(p) /\ SubSeq(s, Len(s) - Len(p) + 1, Len(s)) = p

\* s.includes(p)
Includes(s, p) == \E k \in 1..(Len(s) - Len(p) + 1) : SubSeq(s, k, k + Len(p) - 1) = p

\* s.split("\n")
RECURSIVE Split(_)
Split(s) ==
    LET nl == {k \in 1..Len(s) : s[k] = "\n"}
    IN  IF nl = {} THEN <<s>>
        ELSE <<SubSeq(s, 1, MinOf(nl) - 1)>> \o Split(SubSeq(s, MinOf(nl) + 1, Len(s)))

\* ls.join("\n")
RECURSIVE Join(_)
Join(ls) ==
    IF Len(ls) = 0 THEN EmptyStr
    ELSE IF Len(ls) = 1 THEN ls[1]
    ELSE ls[1] \o <<"\n">> \o Join(Tail(ls))

\* "  ".repeat(n), for n >= 0
RECURSIVE Repeat(_)
Repeat(n) == IF n <= 0 THEN EmptyStr ELSE <<" ", " ">> \o Repeat(n - 1)

\* String.prototype.repeat throws a RangeError on a negative count.
RepeatThrows(n) == n < 0

\* (line.match(/c/g) || []).length
RECURSIVE MatchCount(_, _)
MatchCount(s, c) ==
    IF Len(s) = 0 THEN 0
    ELSE (IF Head(s) = c THEN 1 ELSE 0) + MatchCount(Tail(s), c)

----------------------------------------------------------------------------
(* formatKamailioConfig: the classification of a trimmed line.  The tests   *)
(* are tried in the order of the code; the first that holds decides.       *)

IsDirective(t) == StartsWith(t, <<"#", "!">>)
IsKamailio(t) == t = <<"#", "!", "K", "A", "M", "A", "I", "L", "I", "O">>
IsDefine(t) == StartsWith(t, <<"#", "!", "d", "e", "f", "i", "n", "e">>)
IsIfdef(t) ==
    \/ StartsWith(t, <<"#", "!", "i", "f", "d", "e", "f">>)
    \/ StartsWith(t, <<"#", "!", "i", "f", "n", "d", "e", "f">>)
IsElse(t) == t = <<"#", "!", "e", "l", "s", "e">>
IsEndif(t) == t = <<"#", "!", "e", "n", "d", "i", "f">>
IsBanner(t) == StartsWith(t, <<"#", "#", "#", "#", "#">>)
IsComment(t) == StartsWith(t, <<"#">>)
IsListen(t) == StartsWith(t, <<"l", "i", "s", "t", "e", "n", "=">>)
IsBlockStart(t) == Includes(t, <<"{">>)
IsBlockEnd(t) == Includes(t, <<"}">>)
IsLoadmodule(t) == StartsWith(t, <<"l", "o", "a", "d", "m", "o", "d", "u", "l", "e">>)
IsModparam(t) == StartsWith(t, <<"m", "o", "d", "p", "a", "r", "a", "m">>)
IsRoute(t) ==
    \/ StartsWith(t, <<"r", "o", "u", "t", "e", "[">>)
    \/ StartsWith(t, <<"f", "a", "i", "l", "u", "r", "e", "_", "r", "o", "u", "t", "e", "[">>)
    \/ StartsWith(t, <<"o", "n", "r", "e", "p", "l", "y", "_", "r", "o", "u", "t", "e", "[">>)
    \/ StartsWith(t, <<"e", "v", "e", "n", "t", "_", "r", "o", "u", "t", "e", "[">>)
    \/ StartsWith(t, <<"r", "e", "q", "u", "e", "s", "t", "_", "r", "o", "u", "t", "e">>)
IsAssignment(t) == Includes(t, <<"=">>) /\ ~Includes(t, <<"=", "=">>)
IsSipFunction(t) ==
    \/ StartsWith(t, <<"t", "_">>)
    \/ StartsWith(t, <<"s", "l", "_">>)
    \/ StartsWith(t, <<"x", "l", "o", "g">>)
    \/ StartsWith(t, <<"r", "t", "p", "e", "n", "g", "i", "n", "e", "_">>)
    \/ StartsWith(t, <<"d", "s", "_">>)
    \/ StartsWith(t, <<"a", "p", "p", "e", "n", "d", "_", "h", "f">>)
    \/ StartsWith(t, <<"r", "e", "m", "o", "v", "e", "_", "h", "f">>)
    \/ StartsWith(t, <<"i", "s", "_", "m", "e", "t", "h", "o", "d">>)
    \/ StartsWith(t, <<"r", "e", "c", "o", "r", "d", "_", "r", "o", "u", "t", "e">>)
IsConditional(t) ==
    \/ StartsWith(t, <<"i", "f">>)
    \/ StartsWith(t, <<"e", "l", "s", "e">>)

Classify(t) ==
    IF t = EmptyStr THEN "empty"
    ELSE IF IsDirective(t) THEN
        (IF IsKamailio(t) THEN "kamailio"
         ELSE IF IsDefine(t) THEN "define"
         ELSE IF IsIfdef(t) THEN "ifdef"
         ELSE IF IsElse(t) THEN "else"
         ELSE IF IsEndif(t) THEN "endif"
         ELSE "directive")
    ELSE IF IsBanner(t) THEN "banner"
    ELSE IF IsComment(t) THEN "comment"
    ELSE IF IsListen(t) THEN "listen"
    ELSE IF IsBlockStart(t) THEN "blockStart"
    ELSE IF IsBlockEnd(t) THEN "blockEnd"
    ELSE IF IsLoadmodule(t) THEN "loadmodule"
    ELSE IF IsModparam(t) THEN "modparam"
    ELSE IF IsRoute(t) THEN "route"
    ELSE IF IsAssignment(t) THEN "assignment"
    ELSE IF IsSipFunction(t) THEN "sipFunction"
    ELSE IF IsConditional(t) THEN "conditional"
    ELSE "default"

----------------------------------------------------------------------------
(* formatKamailioConfig: what each rule does to the state of the pass.      *)
(* st = [indentLevel, inPreprocessorBlock, formattedLines, raised];        *)
(* raised records the RangeError of "  ".repeat(indentLevel).              *)

Push(st, s) == [st EXCEPT !.formattedLines = Append(@, s)]

\* formattedLines.push("  ".repeat(indentLevel) + trimmedLine)
PushIndented(st, t) ==
    IF RepeatThrows(st.indentLevel) THEN [st EXCEPT !.raised = TRUE]
    ELSE Push(st, Repeat(st.indentLevel) \o t)

\* Mutant: an empty line is skipped instead of kept.
RuleEmpty_Skip(st, t) == st

RuleEmpty(st, t) == Push(st, EmptyStr)

RuleKamailio(st, t) == Push(Push(st, t), EmptyStr)

RuleDefine(st, t) == Push(st, t)

RuleIfdef(st, t) ==
    LET a == [st EXCEPT !.inPreprocessorBlock = TRUE]
        b == Push(Push(a, EmptyStr), t)
    IN  [b EXCEPT !.indentLevel = @ + 1]

\* #!else, first statement: indentLevel--
RuleElseDec(st) == [st EXCEPT !.indentLevel = @ - 1]

\* Mutant: the indentLevel++ after the push of #!else is forgotten.
RuleElseEmit_NoIncrement(st, t) == Push(st, t)

\* #!else, the rest: push, indentLevel++
RuleElseEmit(st, t) == [Push(st, t) EXCEPT !.indentLevel = @ + 1]

RuleElse(st, t) == RuleElseEmit(RuleElseDec(st), t)

RuleEndif(st, t) ==
    LET a == [st EXCEPT !.indentLevel = @ - 1]
        b == Push(Push(a, t), EmptyStr)
    IN  [b EXCEPT !.inPreprocessorBlock = FALSE]

RuleDirective(st, t) == Push(st, t)

RuleBanner(st, t) == Push(Push(Push(st, EmptyStr), t), EmptyStr)

RuleComment(st, t) ==
    IF st.inPreprocessorBlock \/ st.indentLevel > 0
    THEN PushIndented(st, t)
    ELSE Push(st, t)

RuleListen(st, t) == Push(st, t)

RuleBlockStart(st, t) ==
    LET a == PushIndented(st, t)
    IN  IF a.raised THEN a ELSE [a EXCEPT !.indentLevel = @ + 1]

RuleBlockEnd(st, t) ==
    PushIndented([st EXCEPT !.indentLevel = IF @ - 1 > 0 THEN @ - 1 ELSE 0], t)

RuleLoadmodule(st, t) == PushIndented(st, t)

RuleModparam(st, t) == PushIndented(st, t)

RuleRoute(st, t) == PushIndented(Push(st, EmptyStr), t)

RuleAssignment(st, t) == PushIndented(st, t)

RuleSipFunction(st, t) == PushIndented(st, t)

RuleConditional(st, t) ==
    LET a == PushIndented(st, t)
    IN  IF a.raised \/ EndsWith(t, <<"{">>) THEN a
        ELSE [a EXCEPT !.indentLevel = @ + 1]

RuleDefault(st, t) == PushIndented(st, t)

\* One iteration of the for loop on the trimmed line t.
ProcessLine(st, t) ==
    LET kind == Classify(t)
    IN  CASE kind = "empty" -> RuleEmpty(st, t)
          [] kind = "kamailio" -> RuleKamailio(st, t)
          [] kind = "define" -> RuleDefine(st, t)
          [] kind = "ifdef" -> RuleIfdef(st, t)
          [] kind = "else" -> RuleElse(st, t)
          [] kind = "endif" -> RuleEndif(st, t)
          [] kind = "directive" -> RuleDirective(st, t)
          [] kind = "banner" -> RuleBanner(st, t)
          [] kind = "comment" -> RuleComment(st, t)
          [] kind = "listen" -> RuleListen(st, t)
          [] kind = "blockStart" -> RuleBlockStart(st, t)
          [] kind = "blockEnd" -> RuleBlockEnd(st, t)
          [] kind = "loadmodule" -> RuleLoadmodule(st, t)
          [] kind = "modparam" -> RuleModparam(st, t)
          [] kind = "route" -> RuleRoute(st, t)
          [] kind = "assignment" -> RuleAssignment(st, t)
          [] kind = "sipFunction" -> RuleSipFunction(st, t)
          [] kind = "conditional" -> RuleConditional(st, t)
          [] OTHER -> RuleDefault(st, t)

\* The state of the pass before the loop.
StartState ==
    [indentLevel |-> 0, inPreprocessorBlock |-> FALSE,
     formattedLines |-> <<>>, raised |-> FALSE]

\* const lines = configContent.trim().split("\n")
FormatLinesOf(content) == Split(Trim(content))

\* The for loop from line k + 1 on; a raised RangeError ends it.
RECURSIVE FormatLoop(_, _, _)
FormatLoop(st, ls, k) ==
    IF st.raised \/ k >= Len(ls) THEN st
    ELSE FormatLoop(ProcessLine(st, Trim(ls[k + 1])), ls, k + 1)

\* formatKamailioConfig(content) as a function of its argument:
\* [raised, content, formattedContent].
formatKamailioConfig(content) ==
    LET st == FormatLoop(StartState, FormatLinesOf(content), 0)
    IN  [raised |-> st.raised,
         content |-> content,
         formattedContent |-> IF st.raised THEN EmptyStr ELSE Join(st.formattedLines)]

----------------------------------------------------------------------------
(* validateKamailioConfig: the pure parts.                                  *)

\* const lines = content.split("\n")
ValidateLinesOf(content) == Split(content)

\* Mutant: the #!ifndef alternative is forgotten.
OpensPreprocessorBlock_IfdefOnly(line) ==
    StartsWith(line, <<"#", "!", "i", "f", "d", "e", "f">>)

\* line.startsWith("#!ifdef") || line.startsWith("#!ifndef")
OpensPreprocessorBlock(line) ==
    \/ StartsWith(line, <<"#", "!", "i", "f", "d", "e", "f">>)
    \/ StartsWith(line, <<"#", "!", "i", "f", "n", "d", "e", "f">>)

\* Mutant: startsWith("#!endif") instead of === "#!endif".
ClosesPreprocessorBlock_Prefix(line) ==
    StartsWith(line, <<"#", "!", "e", "n", "d", "i", "f">>)

\* line === "#!endif"
ClosesPreprocessorBlock(line) == line = <<"#", "!", "e", "n", "d", "i", "f">>

\* preprocessorBlockCount after the if / else if on the line
PreprocessorCountAfter(count, line) ==
    IF OpensPreprocessorBlock(line) THEN count + 1
    ELSE IF ClosesPreprocessorBlock(line) THEN count - 1
    ELSE count

\* if (preprocessorBlockCount < 0), inside the #!endif branch
EndifUnderflow(count, line) ==
    /\ ~OpensPreprocessorBlock(line)
    /\ ClosesPreprocessorBlock(line)
    /\ PreprocessorCountAfter(count, line) < 0

\* blockCount += openCount - closeCount
BlockCountAfter(count, line) ==
    count + MatchCount(line, "{") - MatchCount(line, "}")

\* if (blockCount < 0)
BracketUnderflow(count) == count < 0

\* Mutant: the 0-based index is reported.
ErrorLineNumber_ZeroBased(idx) == idx

\* `line ${i + 1}` of both messages, i the 0-based loop index
ErrorLineNumber(idx) == idx + 1

\* Mutant: the two checks after the loop in the other order.
EndOfDocumentError_PreprocessorFirst(bc, pbc) ==
    IF pbc # 0 THEN "Unmatched preprocessor directives"
    ELSE IF bc # 0 THEN "Unmatched brackets"
    ELSE "none"

\* The checks after the loop: the Error thrown, or "none" for return true.
EndOfDocumentError(bc, pbc) ==
    IF bc # 0 THEN "Unmatched brackets"
    ELSE IF pbc # 0 THEN "Unmatched preprocessor directives"
    ELSE "none"

\* The for loop of the validator from index k on: [error, errLine], error
\* "none" when the loop ends without a throw.
RECURSIVE ValidateLoop(_, _, _, _)
ValidateLoop(bc, pbc, ls, k) ==
    IF k >= Len(ls) THEN [error |-> EndOfDocumentError(bc, pbc), errLine |-> 0]
    ELSE LET l == Trim(ls[k + 1])
         IN  IF EndifUnderflow(pbc, l)
             THEN [error |-> "Unexpected #!endif", errLine |-> ErrorLineNumber(k)]
             ELSE IF BracketUnderflow(BlockCountAfter(bc, l))
             THEN [error |-> "Unexpected closing bracket", errLine |-> ErrorLineNumber(k)]
             ELSE ValidateLoop(BlockCountAfter(bc, l), PreprocessorCountAfter(pbc, l),
                               ls, k + 1)

\* validateKamailioConfig(content) as a function of its argument: the Error
\* thrown and its line, or error "none" for return true.
validateKamailioConfig(content) == ValidateLoop(0, 0, ValidateLinesOf(content), 0)

----------------------------------------------------------------------------
(* The documents handed to the two functions.                               *)

\* Lines of the documents formatted: one or more for every rule of the pass.
FormatVocab ==
    { <<>>,
      <<"#", "!", "K", "A", "M", "A", "I", "L", "I", "O">>,
      <<"#", "!", "d", "e", "f", "i", "n", "e", " ", "A">>,
      <<"#", "!", "i", "f", "d", "e", "f", " ", "X">>,
      <<"#", "!", "e", "l", "s", "e">>,
      <<"#", "!", "e", "n", "d", "i", "f">>,
      <<"#", "!", "s", "u", "b", "s", "t">>,
      <<"#", "#", "#", "#", "#">>,
      <<"#", " ", "{">>,
      <<"l", "i", "s", "t", "e", "n", "=", "a">>,
      <<"{">>,
      <<"}">>,
      <<"}", " ", "e", "l", "s", "e", " ", "{">>,
      <<"l", "o", "a", "d", "m", "o", "d", "u", "l", "e">>,
      <<"m", "o", "d", "p", "a", "r", "a", "m">>,
      <<"r", "o", "u", "t", "e", "[", "A", "]">>,
      <<"r", "o", "u", "t", "e", "[", "A", "]", "{">>,
      <<"a", "=", "1">>,
      <<"x", "l", "o", "g">>,
      <<"i", "f", "(", "a", ")">>,
      <<" ", "e", "x", "i", "t", ";", " ">> }

\* Lines of the documents validated alone: braces and preprocessor blocks.
ValidateVocab ==
    { <<"{">>,
      <<"}">>,
      <<"#", "!", "i", "f", "d", "e", "f", " ", "X">>,
      <<"#", "!", "i", "f", "n", "d", "e", "f", " ", "X">>,
      <<"#", "!", "e", "n", "d", "i", "f">>,
      <<" ", "a", "{", "}", "b", " ">>,
      <<"#", "!", "e", "n", "d", "i", "f", " ", "x">> }

\* Lines of the documents of blocks: braces, preprocessor blocks, conditionals,
\* and the lines they hold.
BlockVocab ==
    { <<"{">>,
      <<"}">>,
      <<"}", " ", "e", "l", "s", "e", " ", "{">>,
      <<"#", "!", "i", "f", "d", "e", "f", " ", "X">>,
      <<"#", "!", "e", "l", "s", "e">>,
      <<"#", "!", "e", "n", "d", "i", "f">>,
      <<"a", "=", "1">>,
      <<"#", " ", "{">>,
      <<"l", "i", "s", "t", "e", "n", "=", "{">>,
      <<"i", "f", "(", "a", ")">>,
      <<"i", "f", "(", "a", ")", "{">> }

\* Every document of at most n lines of V, joined by "\n".
Docs(V, n) == {Join(ls) : ls \in UNION {[1..k -> V] : k \in 0..n}}

----------------------------------------------------------------------------
(* The state machine.  pc: "idle" before the call, "format" / "else" in     *)
(* the formatter's loop ("else" between the two statements around the push *)
(* of a #!else line), "returned" / "raised" after it; "validate" in the    *)
(* validator's loop, "valid" / "threw" after it.                           *)

NoResult == [content |-> EmptyStr, formattedContent |-> EmptyStr]

InitWith(D) ==
    /\ configContent \in D
    /\ pc = "idle"
    /\ lines = <<>>
    /\ i = 0
    /\ indentLevel = 0
    /\ inPreprocessorBlock = FALSE
    /\ formattedLines = <<>>
    /\ result = NoResult
    /\ blockCount = 0
    /\ preprocessorBlockCount = 0
    /\ error = "none"
    /\ errLine = 0

Init == InitWith(Docs(FormatVocab, MaxLines))

InitValidate == InitWith(Docs(ValidateVocab, MaxVLines))

InitBlocks == InitWith(Docs(BlockVocab, MaxBlockLines))

\* The formatter's state as the record the rules work on.
CurState ==
    [indentLevel |-> indentLevel, inPreprocessorBlock |-> inPreprocessorBlock,
     formattedLines |-> formattedLines, raised |-> FALSE]

\* let trimmedLine = line.trim(), for the line the loop is at
trimmedLine == Trim(lines[i + 1])

\* formatKamailioConfig is called: trim, split, the three lets.
FormatCall ==
    /\ pc = "idle"
    /\ pc' = "format"
    /\ lines' = FormatLinesOf(configContent)
    /\ i' = 0
    /\ indentLevel' = StartState.indentLevel
    /\ inPreprocessorBlock' = StartState.inPreprocessorBlock
    /\ formattedLines' = StartState.formattedLines
    /\ UNCHANGED <<configContent, result, valVars>>

\* The loop is at a line that the tests classify as `kind`.
AtLine(kind) ==
    /\ pc = "format"
    /\ i < Len(lines)
    /\ Classify(trimmedLine) = kind

\* The rule's effect st on the variables, then continue (or the throw).
Continue(st) ==
    /\ indentLevel' = st.indentLevel
    /\ inPreprocessorBlock' = st.inPreprocessorBlock
    /\ formattedLines' = st.formattedLines
    /\ pc' = IF st.raised THEN "raised" ELSE "format"
    /\ i' = IF st.raised THEN i ELSE i + 1
    /\ UNCHANGED <<configContent, lines, result, valVars>>

FormatEmpty ==
    /\ AtLine("empty")
    /\ Continue(RuleEmpty(CurState, trimmedLine))

FormatKamailio ==
    /\ AtLine("kamailio")
    /\ Continue(RuleKamailio(CurState, trimmedLine))

FormatDefine ==
    /\ AtLine("define")
    /\ Continue(RuleDefine(CurState, trimmedLine))

FormatIfdef ==
    /\ AtLine("ifdef")
    /\ Continue(RuleIfdef(CurState, trimmedLine))

FormatEndif ==
    /\ AtLine("endif")
    /\ Continue(RuleEndif(CurState, trimmedLine))

FormatDirective ==
    /\ AtLine("directive")
    /\ Continue(RuleDirective(CurState, trimmedLine))

FormatBanner ==
    /\ AtLine("banner")
    /\ Continue(RuleBanner(CurState, trimmedLine))

FormatComment ==
    /\ AtLine("comment")
    /\ Continue(RuleComment(CurState, trimmedLine))

FormatListen ==
    /\ AtLine("listen")
    /\ Continue(RuleListen(CurState, trimmedLine))

FormatBlockStart ==
    /\ AtLine("blockStart")
    /\ Continue(RuleBlockStart(CurState, trimmedLine))

FormatBlockEnd ==
    /\ AtLine("blockEnd")
    /\ Continue(RuleBlockEnd(CurState, trimmedLine))

FormatLoadmodule ==
    /\ AtLine("loadmodule")
    /\ Continue(RuleLoadmodule(CurState, trimmedLine))

FormatModparam ==
    /\ AtLine("modparam")
    /\ Continue(RuleModparam(CurState, trimmedLine))

FormatRoute ==
    /\ AtLine("route")
    /\ Continue(RuleRoute(CurState, trimmedLine))

FormatAssignment ==
    /\ AtLine("assignment")
    /\ Continue(RuleAssignment(CurState, trimmedLine))

FormatSipFunction ==
    /\ AtLine("sipFunction")
    /\ Continue(RuleSipFunction(CurState, trimmedLine))

FormatConditional ==
    /\ AtLine("conditional")
    /\ Continue(RuleConditional(CurState, trimmedLine))

FormatDefault ==
    /\ AtLine("default")
    /\ Continue(RuleDefault(CurState, trimmedLine))

\* A #!else line, first statement: indentLevel--.
FormatElseDec ==
    /\ pc = "format"
    /\ i < Len(lines)
    /\ Classify(trimmedLine) = "else"
    /\ indentLevel' = RuleElseDec(CurState).indentLevel
    /\ pc' = "else"
    /\ UNCHANGED <<configContent, lines, i, inPreprocessorBlock, formattedLines,
                   result, valVars>>

\* A #!else line, the rest: the push, indentLevel++, continue.
FormatElseEmit ==
    /\ pc = "else"
    /\ LET st == RuleElseEmit(CurState, trimmedLine)
       IN  /\ indentLevel' = st.indentLevel
           /\ formattedLines' = st.formattedLines
    /\ pc' = "format"
    /\ i' = i + 1
    /\ UNCHANGED <<configContent, lines, inPreprocessorBlock, result, valVars>>

\* The loop is over: return { content, formattedContent }.
FormatReturn ==
    /\ pc = "format"
    /\ i = Len(lines)
    /\ result' = [content |-> configContent, formattedContent |-> Join(formattedLines)]
    /\ pc' = "returned"
    /\ UNCHANGED <<configContent, lines, i, indentLevel, inPreprocessorBlock,
                   formattedLines, valVars>>

\* validateKamailioConfig is called: split, the two counters.
ValidateCall ==
    /\ pc = "idle"
    /\ pc' = "validate"
    /\ lines' = ValidateLinesOf(configContent)
    /\ i' = 0
    /\ blockCount' = 0
    /\ preprocessorBlockCount' = 0
    /\ UNCHANGED <<configContent, error, errLine, fmtVars>>

\* const line = lines[i].trim()
line == Trim(lines[i + 1])

\* The loop's body throws "Unexpected #!endif at line ..." .
ValidateEndifThrows ==
    /\ pc = "validate"
    /\ i < Len(lines)
    /\ EndifUnderflow(preprocessorBlockCount, line)
    /\ preprocessorBlockCount' = PreprocessorCountAfter(preprocessorBlockCount, line)
    /\ error' = "Unexpected #!endif"
    /\ errLine' = ErrorLineNumber(i)
    /\ pc' = "threw"
    /\ UNCHANGED <<configContent, lines, i, blockCount, fmtVars>>

\* The loop's body throws "Unexpected closing bracket at line ..." .
ValidateBracketThrows ==
    /\ pc = "validate"
    /\ i < Len(lines)
    /\ ~EndifUnderflow(preprocessorBlockCount, line)
    /\ BracketUnderflow(BlockCountAfter(blockCount, line))
    /\ preprocessorBlockCount' = PreprocessorCountAfter(preprocessorBlockCount, line)
    /\ blockCount' = BlockCountAfter(blockCount, line)
    /\ error' = "Unexpected closing bracket"
    /\ errLine' = ErrorLineNumber(i)
    /\ pc' = "threw"
    /\ UNCHANGED <<configContent, lines, i, fmtVars>>

\* The loop's body runs to its end; i++.
ValidateLine ==
    /\ pc = "validate"
    /\ i < Len(lines)
    /\ ~EndifUnderflow(preprocessorBlockCount, line)
    /\ ~BracketUnderflow(BlockCountAfter(blockCount, line))
    /\ preprocessorBlockCount' = PreprocessorCountAfter(preprocessorBlockCount, line)
    /\ blockCount' = BlockCountAfter(blockCount, line)
    /\ i' = i + 1
    /\ UNCHANGED <<configContent, pc, lines, error, errLine, fmtVars>>

\* After the loop: one of the two throws.
ValidateUnmatched ==
    /\ pc = "validate"
    /\ i = Len(lines)
    /\ EndOfDocumentError(blockCount, preprocessorBlockCount) # "none"
    /\ error' = EndOfDocumentError(blockCount, preprocessorBlockCount)
    /\ pc' = "threw"
    /\ UNCHANGED <<configContent, lines, i, blockCount, preprocessorBlockCount,
                   errLine, fmtVars>>

\* After the loop: return true.
ValidateReturn ==
    /\ pc = "validate"
    /\ i = Len(lines)
    /\ EndOfDocumentError(blockCount, preprocessorBlockCount) = "none"
    /\ pc' = "valid"
    /\ UNCHANGED <<configContent, lines, i, blockCount, preprocessorBlockCount,
                   error, errLine, fmtVars>>

FormatNext ==
    \/ FormatCall
    \/ FormatEmpty
    \/ FormatKamailio
    \/ FormatDefine
    \/ FormatIfdef
    \/ FormatElseDec
    \/ FormatElseEmit
    \/ FormatEndif
    \/ FormatDirective
    \/ FormatBanner
    \/ FormatComment
    \/ FormatListen
    \/ FormatBlockStart
    \/ FormatBlockEnd
    \/ FormatLoadmodule
    \/ FormatModparam
    \/ FormatRoute
    \/ FormatAssignment
    \/ FormatSipFunction
    \/ FormatConditional
    \/ FormatDefault
    \/ FormatReturn

ValidateNext ==
    \/ ValidateCall
    \/ ValidateEndifThrows
    \/ ValidateBracketThrows
    \/ ValidateLine
    \/ ValidateUnmatched
    \/ ValidateReturn

\* The formatter on the documents of FormatVocab.
Next == FormatNext

Spec == Init /\ [][Next]_vars

\* The validator on the documents of ValidateVocab.
SpecValidate == InitValidate /\ [][ValidateNext]_vars

\* The formatter on the documents of BlockVocab: the rules their lines reach.
BlocksNext ==
    \/ FormatCall
    \/ FormatIfdef
    \/ FormatElseDec
    \/ FormatElseEmit
    \/ FormatEndif
    \/ FormatComment
    \/ FormatListen
    \/ FormatBlockStart
    \/ FormatBlockEnd
    \/ FormatAssignment
    \/ FormatConditional
    \/ FormatReturn

SpecBlocks == InitBlocks /\ [][BlocksNext]_vars

----------------------------------------------------------------------------
(* What the claims speak of, computed from the document and not from the    *)
(* counters of the code.                                                    *)

\* Occurrences of the character c in s.
CountChar(s, c) == Cardinality({k \in 1..Len(s) : s[k] = c})

\* Lines among the first k of ls whose trimmed text satisfies the test.
OpenerLines(ls, k) ==
    {j \in 1..k : StartsWith(Trim(ls[j]), <<"#", "!", "i", "f", "d", "e", "f">>)
                  \/ StartsWith(Trim(ls[j]), <<"#", "!", "i", "f", "n", "d", "e", "f">>)}
EndifLines(ls, k) == {j \in 1..k : Trim(ls[j]) = <<"#", "!", "e", "n", "d", "i", "f">>}

\* Count of `{` minus count of `}` over the first k lines of ls.
RECURSIVE BraceBalance(_, _)
BraceBalance(ls, k) ==
    IF k = 0 THEN 0
    ELSE BraceBalance(ls, k - 1) + CountChar(ls[k], "{") - CountChar(ls[k], "}")

\* #!ifdef / #!ifndef lines minus exact #!endif lines over the first k lines.
DirectiveBalance(ls, k) == Cardinality(OpenerLines(ls, k)) - Cardinality(EndifLines(ls, k))

\* No `}` of the document comes before its `{`: the balance is never negative
\* after any character of any line.
BracesNested(ls) ==
    \A k \in 1..Len(ls) : \A c \in 1..Len(ls[k]) :
        BraceBalance(ls, k - 1) + CountChar(SubSeq(ls[k], 1, c), "{")
            - CountChar(SubSeq(ls[k], 1, c), "}") >= 0

\* Balanced braces and balanced preprocessor blocks.
WellFormed(ls) ==
    /\ BracesNested(ls)
    /\ \A k \in 1..Len(ls) : DirectiveBalance(ls, k) >= 0
    /\ BraceBalance(ls, Len(ls)) = 0
    /\ DirectiveBalance(ls, Len(ls)) = 0

InValidator == pc \in {"validate", "threw", "valid"}
ValidatorDone == pc \in {"threw", "valid"}

TheDoc(ls) == configContent = Join(ls)

----------------------------------------------------------------------------
(* C1 *)

\* C1: formatKamailioConfig never raises: whatever the lines, the pass never
\* ends in an exception (the RangeError of "  ".repeat on a negative depth).
C1_NeverRaises == pc # "raised"

----------------------------------------------------------------------------
(* C2 *)

\* C2: in every reachable state of the formatting pass, after every statement
\* that changes it, indentLevel >= 0.
C2_IndentLevelNonNegative == indentLevel >= 0

----------------------------------------------------------------------------
(* C3 *)

\* The lines {, }, }.
C3_Example == <<<<"{">>, <<"}">>, <<"}">>>>

\* C3: validateKamailioConfig fails with 'Unexpected closing bracket' at the
\* first line (1-based) after which the running balance of `{` minus `}` is
\* negative: blockCount is that balance, never clamped; it is negative exactly
\* in the state of that failure, whose line number is the line the scan is at
\* and the first with a negative balance; no line after a negative balance is
\* scanned.  The lines {, }, } fail naming line 3.
C3_UnexpectedClosingBracket ==
    InValidator =>
        LET at == IF error = "Unexpected closing bracket" THEN i + 1 ELSE i
        IN  /\ blockCount = BraceBalance(lines, at)
            /\ \A k \in 1..i : BraceBalance(lines, k) >= 0
            /\ (blockCount < 0) <=> (error = "Unexpected closing bracket")
            /\ error = "Unexpected closing bracket" =>
                   /\ pc = "threw"
                   /\ errLine = i + 1
                   /\ BraceBalance(lines, errLine) < 0
                   /\ \A k \in 1..(errLine - 1) : BraceBalance(lines, k) >= 0
            /\ (ValidatorDone /\ TheDoc(C3_Example)) =>
                   error = "Unexpected closing bracket" /\ errLine = 3

C3_Witness ==
    /\ TheDoc(C3_Example)
    /\ pc = "threw"
    /\ error = "Unexpected closing bracket"
    /\ errLine = 3
    /\ blockCount = -1

----------------------------------------------------------------------------
(* C4 *)

\* Five consecutive #!endif lines.
C4_Example == [k \in 1..5 |-> <<"#", "!", "e", "n", "d", "i", "f">>]

\* C4: validateKamailioConfig fails with 'Unexpected #!endif' at the first line
\* (1-based) whose trimmed text is exactly #!endif and that makes
\* preprocessorBlockCount negative: the failure names the line the scan is at,
\* that line is an exact #!endif, the count is -1 there and was never negative
\* before, and the count never goes below -1 (stray #!endif lines are not
\* accumulated).  Five consecutive #!endif fail at line 1.
C4_UnexpectedEndif ==
    InValidator =>
        LET at == IF error \in {"Unexpected #!endif", "Unexpected closing bracket"}
                  THEN i + 1 ELSE i
        IN  /\ preprocessorBlockCount = DirectiveBalance(lines, at)
            /\ \A k \in 1..i : DirectiveBalance(lines, k) >= 0
            /\ (preprocessorBlockCount < 0) <=> (error = "Unexpected #!endif")
            /\ error = "Unexpected #!endif" =>
                   /\ pc = "threw"
                   /\ errLine = i + 1
                   /\ Trim(lines[errLine]) = <<"#", "!", "e", "n", "d", "i", "f">>
                   /\ preprocessorBlockCount = -1
                   /\ \A k \in 1..(errLine - 1) : DirectiveBalance(lines, k) >= 0
            /\ (ValidatorDone /\ TheDoc(C4_Example)) =>
                   error = "Unexpected #!endif" /\ errLine = 1

C4_Witness ==
    /\ TheDoc(C4_Example)
    /\ pc = "threw"
    /\ error = "Unexpected #!endif"
    /\ errLine = 1
    /\ i = 0

----------------------------------------------------------------------------
(* C5 *)

\* The four kinds of line the synthesized inputs are made of; any other line
\* without a brace is filler.
C5_Kind(l) ==
    LET t == Trim(l)
    IN  IF t = <<"{">> THEN "open"
        ELSE IF t = <<"}">> THEN "close"
        ELSE IF t \in {<<"#", "!", "i", "f", "d", "e", "f", " ", "X">>,
                       <<"#", "!", "i", "f", "n", "d", "e", "f", " ", "X">>} THEN "ifdef"
        ELSE IF t = <<"#", "!", "e", "n", "d", "i", "f">> THEN "endif"
        ELSE IF CountChar(t, "{") + CountChar(t, "}") = 0 THEN "filler"
        ELSE "other"

\* ls from line k on closes the pairs open on the stack, innermost first, and
\* is made of properly nested pairs besides.
RECURSIVE C5_Nested(_, _, _)
C5_Nested(ls, k, stack) ==
    IF k > Len(ls) THEN stack = <<>>
    ELSE LET kind == C5_Kind(ls[k])
         IN  CASE kind = "open" -> C5_Nested(ls, k + 1, <<"close">> \o stack)
               [] kind = "ifdef" -> C5_Nested(ls, k + 1, <<"endif">> \o stack)
               [] kind \in {"close", "endif"} ->
                      /\ stack # <<>>
                      /\ Head(stack) = kind
                      /\ C5_Nested(ls, k + 1, Tail(stack))
               [] kind = "filler" -> C5_Nested(ls, k + 1, stack)
               [] OTHER -> FALSE

\* Built by concatenating and nesting balanced pairs.
C5_Balanced(ls) == C5_Nested(ls, 1, <<>>)

C5_Without(ls, p) == SubSeq(ls, 1, p - 1) \o SubSeq(ls, p + 1, Len(ls))

\* ls is a balanced input with one line of the given closing kind added.
C5_OneAdded(ls, kind) ==
    \E p \in 1..Len(ls) : C5_Kind(ls[p]) = kind /\ C5_Balanced(C5_Without(ls, p))

\* The closing line left without an opener: the first line of the closing kind
\* up to which the closers of the kind outnumber its openers.
C5_Unmatched(ls, opener, closer) ==
    LET n(kind, q) == Cardinality({j \in 1..q : C5_Kind(ls[j]) = kind})
    IN  MinOf({q \in 1..Len(ls) : C5_Kind(ls[q]) = closer /\ n(closer, q) > n(opener, q)})

\* C5: validator soundness: on every input built by concatenating and nesting
\* balanced { ... } and #!ifdef/#!ifndef ... #!endif pairs the validator returns
\* true; with exactly one unmatched } added it fails with 'Unexpected closing
\* bracket', with one stray #!endif added with 'Unexpected #!endif', each time
\* naming the line of the closer that has no opener.
C5_ValidatorSoundness ==
    ValidatorDone =>
        /\ C5_Balanced(lines) => pc = "valid" /\ error = "none"
        /\ C5_OneAdded(lines, "close") =>
               /\ pc = "threw"
               /\ error = "Unexpected closing bracket"
               /\ errLine = C5_Unmatched(lines, "open", "close")
        /\ C5_OneAdded(lines, "endif") =>
               /\ pc = "threw"
               /\ error = "Unexpected #!endif"
               /\ errLine = C5_Unmatched(lines, "ifdef", "endif")

\* A stray #!endif added at line 3 of a balanced input of four lines fails there.
C5_Witness ==
    /\ pc = "threw"
    /\ Len(lines) = 5
    /\ C5_OneAdded(lines, "endif")
    /\ C5_Kind(lines[1]) = "open"
    /\ C5_Kind(lines[4]) = "ifdef"
    /\ error = "Unexpected #!endif"
    /\ errLine = 3

----------------------------------------------------------------------------
(* C6 *)

\* C6: when the scan reaches the end of the document without a failure in
\* the loop, the validator fails with 'Unmatched brackets' if the final
\* blockCount is not 0, otherwise with 'Unmatched preprocessor directives' if
\* the final preprocessorBlockCount is not 0, otherwise it returns true; with
\* both counts non-zero only the bracket failure is reported; neither failure
\* carries a line number.  The final counts are the balances of the document.
C6_EndOfDocument ==
    (ValidatorDone /\ error \notin {"Unexpected #!endif", "Unexpected closing bracket"}) =>
        /\ i = Len(lines)
        /\ blockCount = BraceBalance(lines, Len(lines))
        /\ preprocessorBlockCount = DirectiveBalance(lines, Len(lines))
        /\ errLine = 0
        /\ IF blockCount # 0
           THEN pc = "threw" /\ error = "Unmatched brackets"
           ELSE IF preprocessorBlockCount # 0
           THEN pc = "threw" /\ error = "Unmatched preprocessor directives"
           ELSE pc = "valid" /\ error = "none"

\* Both residual counts are non-zero and the bracket failure is the one reported.
C6_Witness ==
    /\ pc = "threw"
    /\ i = Len(lines)
    /\ blockCount > 0
    /\ preprocessorBlockCount > 0
    /\ error = "Unmatched brackets"
    /\ errLine = 0

----------------------------------------------------------------------------
(* C7 *)

\* C7: idempotence: for every well-formed input, formatKamailioConfig applied
\* to its own formattedContent returns the same formattedContent.
C7_Idempotent ==
    (pc = "returned" /\ WellFormed(lines)) =>
        LET again == formatKamailioConfig(result.formattedContent)
        IN  ~again.raised /\ again.formattedContent = result.formattedContent

----------------------------------------------------------------------------
(* C8 *)

\* Number of leading spaces of s.
C8_LeadingSpaces(s) == FirstKept(s, 1) - 1

\* The last line pushed that is not empty.
C8_LastEmitted ==
    formattedLines[MaxOf({k \in 1..Len(formattedLines) : formattedLines[k] # EmptyStr})]

\* ls with its comment lines (trimmed text starting with #) emptied: comment
\* lines are ignored when the nesting depth is measured.
C8_Code(ls) ==
    [k \in 1..Len(ls) |-> IF StartsWith(Trim(ls[k]), <<"#">>) THEN EmptyStr ELSE ls[k]]

\* Net brace-nesting depth up to line k: openers counted after the line they
\* appear on, closers on it.
C8_Depth(ls, k) ==
    BraceBalance(C8_Code(ls), k - 1) - CountChar(C8_Code(ls)[k], "}")

\* C8: brace-depth consistency: for every well-formed input and every emitted
\* non-comment line, the number of leading spaces is 2 times the net
\* brace-nesting depth of the input up to that line.
C8_BraceDepthConsistency ==
    (/\ pc = "format"
     /\ i >= 1
     /\ WellFormed(lines)
     /\ WellFormed(C8_Code(lines))
     /\ Trim(lines[i]) # EmptyStr
     /\ ~StartsWith(Trim(lines[i]), <<"#">>)) =>
        C8_LeadingSpaces(C8_LastEmitted) = 2 * C8_Depth(lines, i)

----------------------------------------------------------------------------
(* C9 *)

\* The lines of the text returned.
OutputLines == Split(result.formattedContent)

\* Line k of ls is preceded by exactly one blank line.
OneBlankBefore(ls, k) ==
    /\ k >= 2
    /\ ls[k - 1] = EmptyStr
    /\ (k >= 3 => ls[k - 2] # EmptyStr)

\* Line k of ls is followed by exactly one blank line.
OneBlankAfter(ls, k) ==
    /\ k + 1 <= Len(ls)
    /\ ls[k + 1] = EmptyStr
    /\ (k + 2 <= Len(ls) => ls[k + 2] # EmptyStr)

\* C9: in the output every route declaration line is preceded by exactly one
\* blank line, also when it carries its opening { and also when the input had
\* blank lines before it.
C9_RoutePrecededByOneBlank ==
    pc = "returned" =>
        \A k \in 1..Len(OutputLines) :
            IsRoute(Trim(OutputLines[k])) => OneBlankBefore(OutputLines, k)

----------------------------------------------------------------------------
(* C10 *)

\* C10: in the output every #!KAMAILIO line is followed by exactly one blank
\* line, whatever line follows it in the input.
C10_KamailioFollowedByOneBlank ==
    pc = "returned" =>
        \A k \in 1..Len(OutputLines) :
            IsKamailio(Trim(OutputLines[k])) => OneBlankAfter(OutputLines, k)

----------------------------------------------------------------------------
(* C11 *)

\* C11: in the output every section banner line (trimmed text starting with
\* five or more #) is preceded by exactly one blank line and followed by
\* exactly one blank line, whatever its neighbours are in the input.
C11_BannerBetweenSingleBlanks ==
    pc = "returned" =>
        \A k \in 1..Len(OutputLines) :
            IsBanner(Trim(OutputLines[k])) =>
                OneBlankBefore(OutputLines, k) /\ OneBlankAfter(OutputLines, k)

----------------------------------------------------------------------------
(* C12 *)

\* The state of the pass after the first k lines.
PrefixState(k) == FormatLoop(StartState, SubSeq(lines, 1, k), 0)

\* A body line: any line that is not blank and neither opens nor closes a
\* block or a preprocessor block.
C12_AnyBodyLine(t) ==
    Classify(t) \notin {"empty", "ifdef", "else", "endif",
                        "blockStart", "blockEnd", "conditional"}

\* Lines j..k are #!ifdef / body / #!endif.
C12_Block(j, k) ==
    /\ 1 <= j
    /\ j < k
    /\ IsIfdef(Trim(lines[j]))
    /\ IsEndif(Trim(lines[k]))
    /\ \A m \in (j + 1)..(k - 1) : C12_AnyBodyLine(Trim(lines[m]))

\* Lines m..k, each at the given depth (a route declaration after its blank line).
RECURSIVE C12_BodyAt(_, _, _)
C12_BodyAt(m, k, depth) ==
    IF m > k THEN <<>>
    ELSE (IF Classify(Trim(lines[m])) = "route" THEN <<EmptyStr>> ELSE <<>>)
         \o <<Repeat(depth) \o Trim(lines[m])>>
         \o C12_BodyAt(m + 1, k, depth)

\* What the claim says of the block at lines j..k, the pass being after line k;
\* the validator is asked only when the body holds no brace.
C12_BlockFormatted(j, k) ==
    LET before == PrefixState(j - 1)
        d == before.indentLevel
        body == SubSeq(lines, j + 1, k - 1)
    IN  /\ formattedLines = before.formattedLines
               \o <<EmptyStr, Trim(lines[j])>>
               \o C12_BodyAt(j + 1, k - 1, d + 1)
               \o <<Trim(lines[k]), EmptyStr>>
        /\ indentLevel = d
        /\ (\A m \in 1..Len(body) : CountChar(body[m], "{") + CountChar(body[m], "}") = 0)
               => validateKamailioConfig(Join(SubSeq(lines, j, k))).error = "none"

\* C12: for a block #!ifdef X / body / #!endif at depth d the validator
\* accepts it, and the formatter emits a blank line, the #!ifdef line, each
\* body line at depth d + 1, the #!endif line and a blank line, and the depth
\* after #!endif is d again.
C12_PreprocessorBlock ==
    (pc = "format" /\ i >= 2) =>
        \A j \in 1..(i - 1) : C12_Block(j, i) => C12_BlockFormatted(j, i)

----------------------------------------------------------------------------
(* C13 *)

\* C13: at every point of the formatting pass inPreprocessorBlock is true
\* exactly when the #!ifdef/#!ifndef lines seen so far outnumber the #!endif
\* lines seen so far (stated for documents with no #!endif before its #!ifdef).
C13_FlagIsOpenBlock ==
    (/\ pc \in {"format", "returned"}
     /\ \A k \in 1..Len(lines) : DirectiveBalance(lines, k) >= 0) =>
        (inPreprocessorBlock <=> DirectiveBalance(lines, i) > 0)

----------------------------------------------------------------------------
(* C14 *)

\* The last line pushed.
LastPushed(ls) == ls[Len(ls)]

\* C14: a #!else line is emitted with the same indentation as the #!ifdef /
\* #!ifndef lines before it, the one that opened its block among them, also
\* inside braces or another preprocessor block, and it leaves the state
\* unchanged: indentLevel and inPreprocessorBlock after the line are what
\* they were before it, and only the line itself is added to the output.
C14_ElseAtParentLevel ==
    (pc = "format" /\ i >= 1 /\ Trim(lines[i]) = <<"#", "!", "e", "l", "s", "e">>) =>
        LET before == PrefixState(i - 1)
        IN  /\ indentLevel = before.indentLevel
            /\ inPreprocessorBlock = before.inPreprocessorBlock
            /\ Len(formattedLines) = Len(before.formattedLines) + 1
            /\ SubSeq(formattedLines, 1, Len(before.formattedLines)) = before.formattedLines
            /\ Trim(LastPushed(formattedLines)) = Trim(lines[i])
            /\ \A j \in 1..(i - 1) :
                   IsIfdef(Trim(lines[j])) =>
                       C8_LeadingSpaces(LastPushed(PrefixState(j).formattedLines))
                           = C8_LeadingSpaces(LastPushed(formattedLines))

\* A #!else of a block nested in braces: the depth is 2 before and after it.
C14_Witness ==
    /\ pc = "format"
    /\ i = 4
    /\ lines = <<<<"{">>, <<"#", "!", "i", "f", "d", "e", "f", " ", "X">>,
                 <<"a", "=", "1">>, <<"#", "!", "e", "l", "s", "e">>>>
    /\ indentLevel = 2
    /\ inPreprocessorBlock
    /\ LastPushed(formattedLines) = <<"#", "!", "e", "l", "s", "e">>

----------------------------------------------------------------------------
(* C15 *)

\* A step of the loop that handles line i + 1 to its continue or its throw.
LineStep == pc = "format" /\ i < Len(lines) /\ pc' \in {"format", "raised"}

\* C15: first match wins: a regular comment line (# but not #!) and a listen=
\* line leave indentLevel unchanged even when they hold a brace, a listen=
\* line is emitted with no indentation at any depth, and a line holding both
\* { and } is handled only as a block opener: emitted at the current depth,
\* then the depth is one more.
C15_FirstMatchWins ==
    [][LineStep =>
        LET t == Trim(lines[i + 1])
            comment == StartsWith(t, <<"#">>) /\ ~StartsWith(t, <<"#", "!">>)
            listen == StartsWith(t, <<"l", "i", "s", "t", "e", "n", "=">>)
        IN  /\ comment => indentLevel' = indentLevel
            /\ listen =>
                   /\ indentLevel' = indentLevel
                   /\ formattedLines' = Append(formattedLines, t)
            /\ (~comment /\ ~listen /\ CountChar(t, "{") > 0 /\ CountChar(t, "}") > 0) =>
                   /\ formattedLines' = Append(formattedLines, Repeat(indentLevel) \o t)
                   /\ indentLevel' = indentLevel + 1]_vars

----------------------------------------------------------------------------
(* C16 *)

\* C16: a line starting with if or else that reaches the conditional rule
\* does not end with {, is emitted at the current depth and increments the
\* depth by one; and the depth after a line is lower than before it only on
\* a } line or a #!endif line.
C16_ConditionalRule ==
    [][LineStep =>
        LET t == Trim(lines[i + 1])
        IN  /\ Classify(t) = "conditional" =>
                   /\ ~EndsWith(t, <<"{">>)
                   /\ formattedLines' = Append(formattedLines, Repeat(indentLevel) \o t)
                   /\ indentLevel' = indentLevel + 1
            /\ indentLevel' < indentLevel =>
                   \/ CountChar(t, "}") > 0
                   \/ t = <<"#", "!", "e", "n", "d", "i", "f">>]_vars

----------------------------------------------------------------------------
(* C17 *)

\* l with its leading whitespace removed.
RECURSIVE C17_LeftStripped(_)
C17_LeftStripped(l) ==
    IF l = <<>> THEN <<>>
    ELSE IF Head(l) \in WhiteSpace THEN C17_LeftStripped(Tail(l))
    ELSE l

\* The non-blank lines of ls, in order, without their leading whitespace.
RECURSIVE C17_NonBlank(_)
C17_NonBlank(ls) ==
    IF ls = <<>> THEN <<>>
    ELSE IF C17_LeftStripped(Head(ls)) = <<>> THEN C17_NonBlank(Tail(ls))
    ELSE <<C17_LeftStripped(Head(ls))>> \o C17_NonBlank(Tail(ls))

\* The non-blank lines of the input, trimmed.
RECURSIVE C17_TrimmedNonBlank(_)
C17_TrimmedNonBlank(ls) ==
    IF ls = <<>> THEN <<>>
    ELSE IF Trim(Head(ls)) = <<>> THEN C17_TrimmedNonBlank(Tail(ls))
    ELSE <<Trim(Head(ls))>> \o C17_TrimmedNonBlank(Tail(ls))

\* The number of blank lines between each two consecutive non-blank lines of
\* ls; n counts the blank lines since the last non-blank line, if one was seen.
RECURSIVE C17_Gaps(_, _, _)
C17_Gaps(ls, seen, n) ==
    IF ls = <<>> THEN <<>>
    ELSE IF C17_LeftStripped(Head(ls)) = <<>> THEN C17_Gaps(Tail(ls), seen, n + 1)
    ELSE (IF seen THEN <<n>> ELSE <<>>) \o C17_Gaps(Tail(ls), TRUE, 0)

====
